---- MODULE Spec2Model ----
(***************************************************************************)
(* Model of the laundry analytics pipeline: the customer feature builder   *)
(* and forecaster (customer_analysis.py), the facility forecaster and the  *)
(* resource analyser (laundry_analysis.py), the dashboard entry points and *)
(* the report files (resources.py).                                        *)
(*                                                                         *)
(* Dates are day numbers; day 0 is 2025-01-01, a Wednesday.  A table is a  *)
(* sequence of rows (records).  A missing cell is the value NaN, which no   *)
(* count, date or forecast value of the model equals.                      *)
(* A mean is kept exact as a record [num, den].  Forecast columns are in   *)
(* tenths of the unit the regression model predicts in, so that the        *)
(* factors 0.7 and 1.3 and the offset 1.5 stay integers.                   *)
(***************************************************************************)
EXTENDS Integers, Sequences, FiniteSets

VARIABLES
    customer_data,  \* rows of the source table of the selected customer
    daily_orders,   \* feature table returned by prepare_enhanced_data
    forecast,       \* table returned by the forecaster (history + future rows)
    stage,          \* position of the customer pipeline
    df,             \* the source table held by the dashboard
    request,        \* the entry point that ran last, with its inputs
    outcome,        \* how that request ended
    steps,          \* pipeline steps the request ran, in order
    daily_usage,    \* table returned by laundry_resource_analysis
    fc_rows,        \* future rows returned by forecast_demand_laundry_rf
    peak_days,      \* indices of fc_rows selected as peak days
    low_demand,     \* indices of fc_rows selected as low-demand days
    dir_exists,     \* whether the reports directory exists
    files,          \* content on disk of each existing report file
    last_saved,     \* text handed to the last save_report of each file name
    loaded,         \* what the last load_report returned
    future_pred,    \* what model.predict returned for the future rows
    daily_demand,   \* daily series returned by prepare_laundry_data
    future_df,      \* feature rows the forecaster builds for the future dates
    split,          \* X_train, X_test, y_train, y_test of the forecaster
    fitted_on,      \* the rows handed to model.fit
    report,         \* figures and labels of the business report
    future_resource,\* table returned by calculate_future_resource
    clock,          \* the day datetime.now() fell on when the table was filtered
    resource_note   \* what the resource view shows under its charts

vars == <<customer_data, daily_orders, forecast, stage, df, request, outcome,
          steps, daily_usage, fc_rows, peak_days, low_demand, dir_exists,
          files, last_saved, loaded, future_pred, daily_demand,
          future_df, split, fitted_on, report,
          future_resource, clock, resource_note>>

customer_vars == <<customer_data, daily_orders, forecast, stage, future_pred,
                   future_df, split, fitted_on, report,
          future_resource, clock, resource_note>>
dashboard_vars == <<df, request, outcome, steps, daily_usage, fc_rows,
                    peak_days, low_demand, daily_demand>>
report_vars == <<dir_exists, files, last_saved, loaded>>
resource_vars == <<future_resource, clock, resource_note>>

NaN == -999
NoClock == -1

(***************************************************************************)
(* Bounds of the model.                                                    *)
(***************************************************************************)
MaxRows == 3        \* order rows of the customer handed to the feature builder
MaxFcRows == 2      \* order rows of the customer handed to the forecaster
MaxSpan == 28       \* days between the earliest and the latest possible order
MaxPred == 2        \* largest value the regression model predicts
MaxTextLen == 2     \* characters of a report text
MaxDfRows == 2      \* rows of the source table behind the dashboard
MaxResRows == 6    \* rows of the source table handed to the resource analysis
MaxThreshold == 2   \* largest threshold set on a slider
MaxFacRows == 2     \* rows of the source table handed to the facility forecaster

(***************************************************************************)
(* Helpers standing for pandas / numpy primitives.                         *)
(***************************************************************************)
SetMin(S) == CHOOSE x \in S : \A y \in S : x <= y
SetMax(S) == CHOOSE x \in S : \A y \in S : x >= y
maximum(a, b) == IF a >= b THEN a ELSE b

\* sum and count of the cells lo..hi of a column that are not missing
RECURSIVE SumSeq(_, _, _)
SumSeq(s, lo, hi) ==
    IF lo > hi THEN 0
    ELSE (IF s[hi] = NaN THEN 0 ELSE s[hi]) + SumSeq(s, lo, hi - 1)
CountSeq(s, lo, hi) == Cardinality({i \in lo..hi : s[i] # NaN})

\* pd.date_range(start, end, freq='D'): every day from start to end inclusive
date_range(start, end) == [i \in 1..(end - start + 1) |-> start + (i - 1)]

\* a range that starts one day early
date_range_periods_early(start, n) == [i \in 1..n |-> start + (i - 2)]

\* pd.date_range(start, periods=n, freq='D')
date_range_periods(start, n) == [i \in 1..n |-> start + (i - 1)]

\* Timestamp.weekday(): Monday = 0 ... Sunday = 6; day 0 is a Wednesday
weekday(d) == (d + 2) % 7

MonthLen == <<31, 28, 31, 30, 31, 30, 31, 31, 30, 31, 30, 31>>
RECURSIVE MonthFrom(_, _)
MonthFrom(d, m) == IF d < MonthLen[m] THEN m ELSE MonthFrom(d - MonthLen[m], m + 1)
RECURSIVE DayFrom(_, _)
DayFrom(d, m) == IF d < MonthLen[m] THEN d + 1 ELSE DayFrom(d - MonthLen[m], m + 1)
month(d) == MonthFrom(d, 1)
day_of_month(d) == DayFrom(d, 1)

(***************************************************************************)
(* prepare_enhanced_data                                                   *)
(***************************************************************************)
StartDates(data) == {data[i].StartDate : i \in 1..Len(data)}

\* the dates that occur, each counted once
groupby_distinct(data) == [d \in StartDates(data) |-> 1]

\* data.groupby("StartDate").size(): one entry per distinct date
groupby_size(data) ==
    [d \in StartDates(data) |-> Cardinality({i \in 1..Len(data) : data[i].StartDate = d})]

\* full_df.merge(daily_orders, on="ds", how="left"): a day without orders gets NaN
merge_left(full_dates, sizes) ==
    [i \in 1..Len(full_dates) |->
        IF full_dates[i] \in DOMAIN sizes THEN sizes[full_dates[i]] ELSE NaN]

\* fillna left out: the missing cells stay missing
fillna_skipped(col) == col

\* Series.fillna(0)
fillna0(col) == [i \in 1..Len(col) |-> IF col[i] = NaN THEN 0 ELSE col[i]]

\* a shift one row short
shift_one_short(col, lag) ==
    [i \in 1..Len(col) |-> IF i <= lag - 1 THEN NaN ELSE col[i - lag + 1]]

\* Series.shift(lag): the first lag cells are missing
shift(col, lag) == [i \in 1..Len(col) |-> IF i <= lag THEN NaN ELSE col[i - lag]]

\* a window centred on row i, which reads the rows after it
rolling_mean_centred(col, window, i) ==
    LET lo == maximum(1, i - window \div 2)
        hi == IF i + window \div 2 <= Len(col) THEN i + window \div 2 ELSE Len(col)
    IN  [num |-> SumSeq(col, lo, hi), den |-> CountSeq(col, lo, hi)]

\* a window that ends on the row before row i
rolling_mean_before_today(col, window, i) ==
    LET lo == maximum(1, i - window)
    IN  [num |-> SumSeq(col, lo, i - 1), den |-> CountSeq(col, lo, i - 1)]

\* a mean that is zero until the window is full
rolling_mean_zero_early(col, window, i) ==
    IF i < window THEN [num |-> 0, den |-> 1]
    ELSE [num |-> SumSeq(col, i - window + 1, i), den |-> window]

\* Series.rolling(window, min_periods=1).mean() at row i: the mean of the
\* cells of the window that are present; den = 0 stands for a missing mean
rolling_mean(col, window, i) ==
    LET lo == maximum(1, i - window + 1)
    IN  [num |-> SumSeq(col, lo, i), den |-> CountSeq(col, lo, i)]

\* data[data["IsHoliday"] == 1]["StartDate"].unique()
holiday_dates(data) == {data[i].StartDate : i \in {j \in 1..Len(data) : data[j].IsHoliday = 1}}

HasNaN(row) ==
    \/ \E f \in {"ds", "orders", "lag_1", "lag_7", "lag_14", "lag_28"} : row[f] = NaN
    \/ \E f \in {"orders_7d_avg", "orders_28d_avg"} : row[f].den = 0

\* DataFrame.dropna(): keeps, in order, the rows without a missing cell
RECURSIVE dropna(_)
dropna(t) ==
    IF t = <<>> THEN <<>>
    ELSE IF HasNaN(Head(t)) THEN dropna(Tail(t))
    ELSE <<Head(t)>> \o dropna(Tail(t))

lag_column(orders, lag) == fillna0(shift(orders, lag))

feature_rows(data) ==
    LET min_date   == SetMin(StartDates(data))
        max_date   == SetMax(StartDates(data))
        full_dates == date_range(min_date, max_date)
        orders     == fillna0(merge_left(full_dates, groupby_size(data)))
        lag_1      == lag_column(orders, 1)
        lag_7      == lag_column(orders, 7)
        lag_14     == lag_column(orders, 14)
        lag_28     == lag_column(orders, 28)
        holidays   == holiday_dates(data)
    IN  [i \in 1..Len(full_dates) |->
            [ds             |-> full_dates[i],
             orders         |-> orders[i],
             day_of_week    |-> weekday(full_dates[i]),
             is_weekend     |-> IF weekday(full_dates[i]) \in {5, 6} THEN 1 ELSE 0,
             month          |-> month(full_dates[i]),
             day_of_month   |-> day_of_month(full_dates[i]),
             time_idx       |-> full_dates[i] - full_dates[1],
             orders_7d_avg  |-> rolling_mean(orders, 7, i),
             orders_28d_avg |-> rolling_mean(orders, 28, i),
             lag_1          |-> lag_1[i],
             lag_7          |-> lag_7[i],
             lag_14         |-> lag_14[i],
             lag_28         |-> lag_28[i],
             is_holiday     |-> IF full_dates[i] \in holidays THEN 1 ELSE 0]]

prepare_enhanced_data(data) == dropna(feature_rows(data))

(***************************************************************************)
(* forecast_intermittent_demand                                            *)
(***************************************************************************)
future_days == 90

\* daily_data.drop(columns=["orders", "ds"]): the feature columns of a row
drop_orders_ds(r) ==
    [day_of_week    |-> r.day_of_week,
     is_weekend     |-> r.is_weekend,
     month          |-> r.month,
     day_of_month   |-> r.day_of_month,
     time_idx       |-> r.time_idx,
     orders_7d_avg  |-> r.orders_7d_avg,
     orders_28d_avg |-> r.orders_28d_avg,
     lag_1          |-> r.lag_1,
     lag_7          |-> r.lag_7,
     lag_14         |-> r.lag_14,
     lag_28         |-> r.lag_28,
     is_holiday     |-> r.is_holiday]

\* int(len(daily_data) * 0.8)
train_size(n) == (n * 8) \div 10

\* X = daily_data.drop(columns=["orders", "ds"]) and y = daily_data["orders"]
feature_matrix(daily_data) == [i \in 1..Len(daily_data) |-> drop_orders_ds(daily_data[i])]
target(daily_data) == [i \in 1..Len(daily_data) |-> daily_data[i].orders]

\* X[:train_size], X[train_size:] and the same two slices of y
train_test_split(daily_data) ==
    LET X == feature_matrix(daily_data)
        y == target(daily_data)
        n == train_size(Len(daily_data))
    IN  [X_train |-> SubSeq(X, 1, n), X_test |-> SubSeq(X, n + 1, Len(X)),
         y_train |-> SubSeq(y, 1, n), y_test |-> SubSeq(y, n + 1, Len(y))]

NoSplit == [X_train |-> <<>>, X_test |-> <<>>, y_train |-> <<>>, y_test |-> <<>>]
NoFit == [X |-> <<>>, y |-> <<>>]

\* the model fitted on every row of the table
fit_on_all_rows(parts) ==
    [X |-> parts.X_train \o parts.X_test, y |-> parts.y_train \o parts.y_test]

\* model.fit(X_train, y_train)
fit_arguments(parts) == [X |-> parts.X_train, y |-> parts.y_train]

\* RandomForestRegressor.fit(X_train, y_train): scikit-learn rejects a
\* training set without rows with a ValueError
fit_raises(n_train) == n_train = 0

\* The fitted regressor is a function of the feature row.  Its value is not
\* computed here: a model is any pair of predicted values, one used for
\* week days and one for weekend days.  A regressor that extrapolates below
\* zero is covered by the value -1.
PredValues == (-1)..MaxPred
Models == [weekday : PredValues, weekend : PredValues]
predict(model, features) ==
    IF features.is_weekend = 1 THEN model.weekend ELSE model.weekday

\* an index one row further back
last_known_before(daily_data, k) ==
    IF Len(daily_data) >= k + 1 THEN daily_data[Len(daily_data) - k].orders ELSE 0

\* daily_data["orders"].iloc[-k] if len(daily_data) >= k else 0
last_known(daily_data, k) ==
    IF Len(daily_data) >= k THEN daily_data[Len(daily_data) - k + 1].orders ELSE 0

\* the last known values every future row is given (lines 71 to 76)
last_known_inputs(daily_data) ==
    [orders_7d_avg  |-> daily_data[Len(daily_data)].orders_7d_avg,
     orders_28d_avg |-> daily_data[Len(daily_data)].orders_28d_avg,
     lag_1          |-> daily_data[Len(daily_data)].orders,
     lag_7          |-> last_known(daily_data, 7),
     lag_14         |-> last_known(daily_data, 14),
     lag_28         |-> last_known(daily_data, 28)]

future_features(known, first_date, holidays, date) ==
    [day_of_week    |-> weekday(date),
     is_weekend     |-> IF weekday(date) \in {5, 6} THEN 1 ELSE 0,
     month          |-> month(date),
     day_of_month   |-> day_of_month(date),
     time_idx       |-> date - first_date,
     orders_7d_avg  |-> known.orders_7d_avg,
     orders_28d_avg |-> known.orders_28d_avg,
     lag_1          |-> known.lag_1,
     lag_7          |-> known.lag_7,
     lag_14         |-> known.lag_14,
     lag_28         |-> known.lag_28,
     is_holiday     |-> IF date \in holidays THEN 1 ELSE 0]

\* future_df = pd.DataFrame(future_data): one feature row per future date
customer_future_df(daily_data, data) ==
    LET holidays     == holiday_dates(data)
        last_date    == SetMax({daily_data[i].ds : i \in 1..Len(daily_data)})
        first_date   == SetMin({daily_data[i].ds : i \in 1..Len(daily_data)})
        future_dates == date_range_periods(last_date + 1, future_days)
        known        == last_known_inputs(daily_data)
    IN  [i \in 1..future_days |->
            future_features(known, first_date, holidays, future_dates[i])]

\* the three forecast columns, in tenths: np.maximum(0, p), np.maximum(0, p * 0.7),
\* np.maximum(0, p * 1.3)
clamp_yhat(p) == maximum(0, 10 * p)
\* the lower bound without the clamp
lower_unclamped(p) == 7 * p

clamp_lower(p) == maximum(0, 7 * p)

\* an upper bound no wider than the prediction
upper_at_prediction(p) == maximum(0, 10 * p)

clamp_upper(p) == maximum(0, 13 * p)

future_row(date, p) ==
    [ds |-> date, y |-> NaN, yhat |-> clamp_yhat(p),
     yhat_lower |-> clamp_lower(p), yhat_upper |-> clamp_upper(p)]

\* daily_data[["ds", "orders"]].rename(columns={"orders": "y"}), as it stands in
\* the concatenated table: the forecast columns are missing
historical_row(r) ==
    [ds |-> r.ds, y |-> r.orders, yhat |-> NaN, yhat_lower |-> NaN, yhat_upper |-> NaN]

\* future_pred = model.predict(future_df)
customer_future_pred(daily_data, data, model) ==
    LET holidays     == holiday_dates(data)
        last_date    == SetMax({daily_data[i].ds : i \in 1..Len(daily_data)})
        first_date   == SetMin({daily_data[i].ds : i \in 1..Len(daily_data)})
        future_dates == date_range_periods(last_date + 1, future_days)
        known        == last_known_inputs(daily_data)
    IN  [i \in 1..future_days |->
            predict(model, future_features(known, first_date, holidays, future_dates[i]))]

forecast_intermittent_demand(daily_data, data, model) ==
    LET last_date    == SetMax({daily_data[i].ds : i \in 1..Len(daily_data)})
        future_dates == date_range_periods(last_date + 1, future_days)
        pred         == customer_future_pred(daily_data, data, model)
        historical   == [i \in 1..Len(daily_data) |-> historical_row(daily_data[i])]
    IN  historical \o [i \in 1..future_days |-> future_row(future_dates[i], pred[i])]

\* forecast[forecast["ds"] > actual["ds"].max()]
forecast_period(actual, fc) ==
    LET last == SetMax({actual[i].ds : i \in 1..Len(actual)})
    IN  SelectSeq(fc, LAMBDA r : r.ds > last)

(***************************************************************************)
(* generate_business_report                                                *)
(***************************************************************************)
\* the historical table the forecaster returns next to the forecast
historical_table(daily_data) == [i \in 1..Len(daily_data) |-> historical_row(daily_data[i])]

RECURSIVE SumOf(_, _)
SumOf(table, column) ==
    IF table = <<>> THEN 0 ELSE Head(table)[column] + SumOf(Tail(table), column)

\* the value cut off instead of rounded
round_down(num, den) == num \div den

\* round(x) of a value x = num / den >= 0: Python rounds to the nearest
\* integer and a value half way between two integers to the even one
round(num, den) ==
    LET q == num \div den
        r == num % den
    IN  IF 2 * r < den THEN q
        ELSE IF 2 * r > den THEN q + 1
        ELSE IF q % 2 = 0 THEN q ELSE q + 1

\* "Low" if avg_upper/avg_lower < 1.5 else "Medium": both averages are numpy
\* floats, so 0 / 0 is nan, and nan < 1.5 is false
volatility_label(avg_upper, avg_lower) ==
    IF avg_lower.num # 0 /\ 2 * avg_upper.num < 3 * avg_lower.num THEN "Low" ELSE "Medium"

\* "Minimal" if avg_daily < 1 else "Moderate"
stockout_label(avg_daily) == IF avg_daily.num < avg_daily.den THEN "Minimal" ELSE "Moderate"

\* "Low" if avg_daily > 0.5 else "Medium"
waste_label(avg_daily) == IF 2 * avg_daily.num > avg_daily.den THEN "Low" ELSE "Medium"

\* "lean" if avg_daily < 1 else "moderate"
inventory_label(avg_daily) == IF avg_daily.num < avg_daily.den THEN "lean" ELSE "moderate"

\* the comparison taken as at-or-below
deliveries_label_inclusive(avg_daily) ==
    IF avg_daily.num <= 2 * avg_daily.den THEN "weekly" ELSE "bi-weekly"

\* "weekly" if avg_daily < 2 else "bi-weekly"
deliveries_label(avg_daily) ==
    IF avg_daily.num < 2 * avg_daily.den THEN "weekly" ELSE "bi-weekly"

\* "weekend" if customer_data["IsWeekend"].mean() > 0.3 else "mid-week"
monitor_label(data) ==
    IF 10 * SumOf(data, "IsWeekend") > 3 * Len(data) THEN "weekend" ELSE "mid-week"

\* the figures and labels generate_business_report writes into its text.  The
\* forecast columns are in tenths, so a mean of n rows has the divisor 10 * n.
generate_business_report(actual, fc, data) ==
    LET period    == forecast_period(actual, fc)
        n         == Len(period)
        sum_yhat  == SumOf(period, "yhat")
        sum_lower == SumOf(period, "yhat_lower")
        sum_upper == SumOf(period, "yhat_upper")
        avg_daily == [num |-> sum_yhat, den |-> 10 * n]
        avg_lower == [num |-> sum_lower, den |-> 10 * n]
        avg_upper == [num |-> sum_upper, den |-> 10 * n]
    IN  [avg_daily      |-> avg_daily,
         avg_lower      |-> avg_lower,
         avg_upper      |-> avg_upper,
         min_stock      |-> maximum(1, round(sum_lower, 10 * n)),
         weekly_low     |-> round(56 * sum_yhat, 100 * n),
         weekly_high    |-> round(84 * sum_yhat, 100 * n),
         buffer_stock   |-> round(2 * sum_upper, 10 * n),
         volatility     |-> volatility_label(avg_upper, avg_lower),
         stockout_risk  |-> stockout_label(avg_daily),
         waste          |-> waste_label(avg_daily),
         inventory      |-> inventory_label(avg_daily),
         deliveries     |-> deliveries_label(avg_daily),
         monitor        |-> monitor_label(data)]

NoReport == <<>>

(***************************************************************************)
(* customer_resource_analysis and calculate_future_resource                *)
(***************************************************************************)
\* avg_water and avg_electricity: the column sum over the number of orders.
\* The per-day table resource_usage is only plotted and is left out.
customer_resource_analysis(data) ==
    [avg_water       |-> [num |-> SumOf(data, "Water_Litres"), den |-> Len(data)],
     avg_electricity |-> [num |-> SumOf(data, "Electricity_kWh"), den |-> Len(data)]]

\* yhat * average: yhat is in tenths, and a missing yhat gives a missing
\* product (den = 0)
needed(yhat, average) ==
    IF yhat = NaN THEN [num |-> 0, den |-> 0]
    ELSE [num |-> yhat * average.num, den |-> 10 * average.den]

resource_row(r, avg_water, avg_electricity) ==
    [ds |-> r.ds, y |-> r.y, yhat |-> r.yhat,
     yhat_lower |-> r.yhat_lower, yhat_upper |-> r.yhat_upper,
     Water_Needed |-> needed(r.yhat, avg_water),
     Electricity_Needed |-> needed(r.yhat, avg_electricity)]

\* the rows after the last historical date, whatever the time is
future_resource_after_history(fc, avg_water, avg_electricity, now) ==
    LET last   == SetMax({fc[i].ds : i \in {j \in 1..Len(fc) : fc[j].y # NaN}})
        period == SelectSeq(fc, LAMBDA r : r.ds > last)
    IN  [i \in 1..Len(period) |-> resource_row(period[i], avg_water, avg_electricity)]

\* forecast[forecast["ds"] > datetime.now()] with the two columns added.  ds is
\* the midnight of a day and now the day the call is made on, at any time of
\* that day: ds > datetime.now() holds exactly for the days after it.
calculate_future_resource(fc, avg_water, avg_electricity, now) ==
    LET period == SelectSeq(fc, LAMBDA r : r.ds > now)
    IN  [i \in 1..Len(period) |-> resource_row(period[i], avg_water, avg_electricity)]

\* "Future Resource Needs" with its charts, or st.info("No future resource
\* needs calculated")
resource_note_of(table) == IF Len(table) = 0 THEN "no_future_needs" ELSE "future_needs"

(***************************************************************************)
(* laundry_analysis.py: the facility forecaster                            *)
(***************************************************************************)
\* df[df[column] == value]: the matching rows, in table order
filter_rows(table, column, value) == SelectSeq(table, LAMBDA r : r[column] = value)

\* the selection written back to the table it was taken from
filtered_in_place(table, column, value) == filter_rows(table, column, value)

\* the table a selection was taken from, after df[df[column] == value] and
\* after .copy(): the selection is a new table, and every later column
\* assignment goes to it or to a table derived from it
source_after_filter(table, column, value) == table

\* the rows of a table in ascending order of its distinct dates, as groupby
\* returns its groups
sorted_dates(data) ==
    LET D == StartDates(data)
    IN  [i \in 1..Cardinality(D) |->
            CHOOSE d \in D : Cardinality({e \in D : e < d}) = i - 1]

prepare_laundry_data(table, laundry_id) ==
    LET laundry_df == filter_rows(table, "LaundryID", laundry_id)
        sizes      == groupby_size(laundry_df)
        dates      == sorted_dates(laundry_df)
    IN  [i \in 1..Len(dates) |-> [ds |-> dates[i], y |-> sizes[dates[i]]]]

\* DataFrame.empty
empty(table) == Len(table) = 0

\* ds.dt.dayofyear, ds.dt.dayofweek, ds.dt.isocalendar().week in 2025
laundry_features(date) ==
    [DayOfYear |-> date + 1, DayOfWeek |-> weekday(date), WeekOfYear |-> ((date + 2) \div 7) + 1]

predict_laundry(model, features) ==
    IF features.DayOfWeek \in {5, 6} THEN model.weekend ELSE model.weekday

\* yhat, yhat - 1.5 and yhat + 1.5, in tenths
band_yhat(p) == 10 * p
band_lower(p) == 10 * p - 15
band_upper(p) == 10 * p + 15

laundry_future_pred(daily, forecast_days, model) ==
    LET last_date == SetMax({daily[i].ds : i \in 1..Len(daily)})
        future_dates == date_range_periods(last_date + 1, forecast_days)
    IN  [i \in 1..forecast_days |-> predict_laundry(model, laundry_features(future_dates[i]))]

forecast_demand_laundry_rf(daily, forecast_days, model) ==
    LET last_date == SetMax({daily[i].ds : i \in 1..Len(daily)})
        future_dates == date_range_periods(last_date + 1, forecast_days)
        yhat == laundry_future_pred(daily, forecast_days, model)
    IN  [i \in 1..forecast_days |->
            [ds |-> future_dates[i],
             DayOfYear |-> laundry_features(future_dates[i]).DayOfYear,
             DayOfWeek |-> laundry_features(future_dates[i]).DayOfWeek,
             WeekOfYear |-> laundry_features(future_dates[i]).WeekOfYear,
             yhat |-> band_yhat(yhat[i]),
             yhat_lower |-> band_lower(yhat[i]),
             yhat_upper |-> band_upper(yhat[i])]]

\* the comparison taken as at-or-above
peak_rows_at_or_above(fc, threshold) == {i \in 1..Len(fc) : fc[i].yhat >= 10 * threshold}

\* forecast[forecast["yhat"] > peak_threshold], as row indices
peak_rows(fc, threshold) == {i \in 1..Len(fc) : fc[i].yhat > 10 * threshold}

\* forecast[forecast["yhat"] < threshold], as row indices
low_demand_rows(fc, threshold) == {i \in 1..Len(fc) : fc[i].yhat < 10 * threshold}

(***************************************************************************)
(* laundry_resource_analysis                                               *)
(***************************************************************************)
RECURSIVE SumColumn(_, _)
SumColumn(table, column) ==
    IF table = <<>> THEN 0 ELSE Head(table)[column] + SumColumn(Tail(table), column)

\* the aggregation left out: one row per order
usage_per_order(laundry_df) ==
    [i \in 1..Len(laundry_df) |->
        [StartDate |-> laundry_df[i].StartDate,
         OrderCount |-> 1,
         WaterConsumption |-> laundry_df[i].Water_Litres,
         ElectricityConsumption |-> laundry_df[i].Electricity_kWh]]

\* groupby(["StartDate"]).agg(count, sum, sum).reset_index() with the renamed columns
aggregate_usage(laundry_df) ==
    LET dates == sorted_dates(laundry_df)
    IN  [i \in 1..Len(dates) |->
            LET day_rows == filter_rows(laundry_df, "StartDate", dates[i])
            IN  [StartDate |-> dates[i],
                 OrderCount |-> Len(day_rows),
                 WaterConsumption |-> SumColumn(day_rows, "Water_Litres"),
                 ElectricityConsumption |-> SumColumn(day_rows, "Electricity_kWh")]]

\* LinearRegression().fit(X, y): scikit-learn rejects a table without rows
\* with a ValueError
regression_raises(usage) == Len(usage) = 0

\* IsolationForest.fit_predict gives each row 1 (inlier) or -1 (outlier).  The
\* residual columns it reads are not computed here: any labelling can come out.
Labellings(usage) == [1..Len(usage) -> {1, -1}]

\* Series.map({1: "Normal", -1: "Anomaly"}): a value outside the mapping gets NaN
anomaly_label(a) == CASE a = 1 -> "Normal" [] a = -1 -> "Anomaly" [] OTHER -> "NaN"

AlertText == "Alert: High usage on low order day"
NormalText == "Normal"

\* the count compared with <= instead of <
check_alerts_inclusive(row) ==
    IF row.Anomaly = -1 /\ row.OrderCount <= 5 THEN AlertText ELSE NormalText

check_alerts(row) ==
    IF row.Anomaly = -1 /\ row.OrderCount < 5 THEN AlertText ELSE NormalText

laundry_resource_analysis(table, laundry_id, labels) ==
    LET usage == aggregate_usage(filter_rows(table, "LaundryID", laundry_id))
    IN  [i \in 1..Len(usage) |->
            LET labelled == [StartDate |-> usage[i].StartDate,
                             OrderCount |-> usage[i].OrderCount,
                             WaterConsumption |-> usage[i].WaterConsumption,
                             ElectricityConsumption |-> usage[i].ElectricityConsumption,
                             Anomaly |-> labels[i],
                             AnomalyLabel |-> anomaly_label(labels[i])]
            IN  [StartDate |-> labelled.StartDate,
                 OrderCount |-> labelled.OrderCount,
                 WaterConsumption |-> labelled.WaterConsumption,
                 ElectricityConsumption |-> labelled.ElectricityConsumption,
                 Anomaly |-> labelled.Anomaly,
                 AnomalyLabel |-> labelled.AnomalyLabel,
                 Alert |-> check_alerts(labelled)]]

(***************************************************************************)
(* resources.py: save_report and load_report                               *)
(***************************************************************************)
\* A text is a sequence of characters; LF and CR are the line feed and the
\* carriage return, "a" stands for every other character.
Chars == {"a", "LF", "CR"}
Texts == UNION {[1..k -> Chars] : k \in 0..MaxTextLen}
FileNames == {"customer_T1_report.md", "customer_T2_report.md"}

Missing == <<"no such file">>        \* the file is not on disk
None == <<"None">>                   \* Python's None
FileNotFound == <<"FileNotFoundError">>

\* os.linesep on the POSIX systems the dashboard is run on
linesep == <<"LF">>

\* f.write(content) on a file opened with open(filepath, "w"): text mode writes
\* os.linesep for every line feed
RECURSIVE write_text(_)
write_text(content) ==
    IF content = <<>> THEN <<>>
    ELSE (IF Head(content) = "LF" THEN linesep ELSE <<Head(content)>>)
         \o write_text(Tail(content))

\* f.read() on a file opened with open(filepath, "r"): text mode with universal
\* newlines turns CR LF and a lone CR into a line feed
RECURSIVE read_text(_)
read_text(bytes) ==
    IF bytes = <<>> THEN <<>>
    ELSE IF Head(bytes) = "CR"
         THEN IF Len(bytes) >= 2 /\ bytes[2] = "LF"
              THEN <<"LF">> \o read_text(SubSeq(bytes, 3, Len(bytes)))
              ELSE <<"LF">> \o read_text(Tail(bytes))
         ELSE <<Head(bytes)>> \o read_text(Tail(bytes))

\* open(filepath, "r") raises FileNotFoundError when the directory or the file
\* is missing
open_read(exists, disk, filename) ==
    IF exists /\ disk[filename] # Missing THEN disk[filename] ELSE FileNotFound

\* the FileNotFoundError not caught
load_report_uncaught(exists, disk, filename) ==
    LET f == open_read(exists, disk, filename)
    IN  IF f = FileNotFound THEN FileNotFound ELSE read_text(f)

load_report(exists, disk, filename) ==
    LET f == open_read(exists, disk, filename)
    IN  IF f = FileNotFound THEN None ELSE read_text(f)

\* the disk after save_report: open(filepath, "w") creates or truncates the file
save_report(disk, content, filename) ==
    [disk EXCEPT ![filename] = write_text(content)]

SaveReport(content, filename) ==
    /\ dir_exists' = TRUE
    /\ files' = save_report(files, content, filename)
    /\ last_saved' = [last_saved EXCEPT ![filename] = content]
    /\ UNCHANGED <<loaded, customer_vars, dashboard_vars>>

LoadReport(filename) ==
    /\ loaded' = [name |-> filename, result |-> load_report(dir_exists, files, filename)]
    /\ UNCHANGED <<dir_exists, files, last_saved, customer_vars, dashboard_vars>>

(***************************************************************************)
(* Inputs: the order rows of one customer.                                 *)
(***************************************************************************)
HolidayCalendar == {0, 19}   \* 2025-01-01 and 2025-01-20

OrderRow(t, l, d) ==
    [TenantID |-> t, LaundryID |-> l, StartDate |-> d,
     Water_Litres |-> 50, Electricity_kWh |-> 2,
     IsWeekend |-> IF weekday(d) \in {5, 6} THEN 1 ELSE 0,
     IsHoliday |-> IF d \in HolidayCalendar THEN 1 ELSE 0]

SeqsUpTo(S, n) == UNION {[1..k -> S] : k \in 1..n}

\* the order dates are taken around the lag offsets 1, 7, 14 and 28
OrderDays == {0, 1, 5, 6, 7, 13, 14, 27, MaxSpan}

\* every non-empty sequence of at most n orders of customer T1, in any order
CustomerInputs(n) ==
    {[i \in 1..Len(ds) |-> OrderRow("T1", "L1", ds[i])] : ds \in SeqsUpTo(OrderDays, n)}

(***************************************************************************)
(* The customer pipeline: show_forecast_analysis, show_resource_analysis   *)
(* and show_business_report all start with these two calls.                *)
(***************************************************************************)
DashboardIdle ==
    /\ df = <<>>
    /\ request = [entry |-> "none", id |-> "", subsection |-> "", threshold |-> 0]
    /\ outcome = "none"
    /\ steps = <<>>
    /\ daily_usage = <<>>
    /\ fc_rows = <<>>
    /\ peak_days = {}
    /\ low_demand = {}
    /\ daily_demand = <<>>

CustomerIdle ==
    /\ customer_data = <<>>
    /\ daily_orders = <<>>
    /\ forecast = <<>>
    /\ stage = "idle"
    /\ future_pred = <<>>
    /\ future_df = <<>>
    /\ split = NoSplit
    /\ fitted_on = NoFit
    /\ report = NoReport
    /\ future_resource = <<>>
    /\ clock = NoClock
    /\ resource_note = ""

NothingLoaded == [name |-> "", result |-> None]

ReportsIdle ==
    /\ dir_exists = FALSE
    /\ files = [f \in FileNames |-> Missing]
    /\ last_saved = [f \in FileNames |-> Missing]
    /\ loaded = NothingLoaded

PipelineStart(inputs) ==
    /\ customer_data \in inputs
    /\ daily_orders = <<>>
    /\ forecast = <<>>
    /\ stage = "filtered"
    /\ future_pred = <<>>
    /\ future_df = <<>>
    /\ split = NoSplit
    /\ fitted_on = NoFit
    /\ report = NoReport
    /\ future_resource = <<>>
    /\ clock = NoClock
    /\ resource_note = ""

PrepareEnhancedData ==
    /\ stage = "filtered"
    /\ daily_orders' = prepare_enhanced_data(customer_data)
    /\ stage' = "prepared"
    /\ UNCHANGED <<customer_data, forecast, future_pred, future_df, split, fitted_on,
                   report, resource_vars, dashboard_vars, report_vars>>

ForecastIntermittentDemand ==
    /\ stage = "prepared"
    /\ split' = train_test_split(daily_orders)
    /\ fitted_on' = fit_arguments(train_test_split(daily_orders))
    /\ IF fit_raises(train_size(Len(daily_orders)))
       THEN /\ stage' = "raised"
            /\ forecast' = forecast
            /\ future_pred' = future_pred
            /\ future_df' = future_df
       ELSE \E model \in Models :
            /\ forecast' = forecast_intermittent_demand(daily_orders, customer_data, model)
            /\ future_pred' = customer_future_pred(daily_orders, customer_data, model)
            /\ future_df' = customer_future_df(daily_orders, customer_data)
            /\ stage' = "forecast"
    /\ UNCHANGED <<customer_data, daily_orders, report, resource_vars,
                   dashboard_vars, report_vars>>

\* the feature builder alone, over every input
InitFeatures == PipelineStart(CustomerInputs(MaxRows)) /\ DashboardIdle /\ ReportsIdle
NextFeatures == PrepareEnhancedData
SpecFeatures == InitFeatures /\ [][NextFeatures]_vars

\* the feature builder followed by the forecaster
InitCustomer == PipelineStart(CustomerInputs(MaxFcRows)) /\ DashboardIdle /\ ReportsIdle
NextCustomer == PrepareEnhancedData \/ ForecastIntermittentDemand
SpecCustomer == InitCustomer /\ [][NextCustomer]_vars

\* show_business_report: the two calls and then the report, over order sets
\* that hold week days and weekend days
GenerateBusinessReport ==
    /\ stage = "forecast"
    /\ report' = generate_business_report(historical_table(daily_orders), forecast,
                                          customer_data)
    /\ stage' = "report"
    /\ UNCHANGED <<customer_data, daily_orders, forecast, future_pred, future_df,
                   split, fitted_on, resource_vars, dashboard_vars, report_vars>>

ReportDays == {1, 3, 4}   \* a Thursday, a Saturday and a Sunday
ReportInputs(n) ==
    {[i \in 1..Len(ds) |-> OrderRow("T1", "L1", ds[i])] : ds \in SeqsUpTo(ReportDays, n)}
InitBusinessReport ==
    PipelineStart(ReportInputs(MaxFcRows)) /\ DashboardIdle /\ ReportsIdle
NextBusinessReport ==
    PrepareEnhancedData \/ ForecastIntermittentDemand \/ GenerateBusinessReport
SpecBusinessReport == InitBusinessReport /\ [][NextBusinessReport]_vars

\* show_resource_analysis: the two calls, then the averages and the table of
\* future needs filtered by the time of the call
NowDays == {3, 93, 94}
ShowCustomerResources ==
    /\ stage = "forecast"
    /\ \E now \in NowDays :
        LET averages == customer_resource_analysis(customer_data)
            table    == calculate_future_resource(forecast, averages.avg_water,
                                                  averages.avg_electricity, now)
        IN  /\ clock' = now
            /\ future_resource' = table
            /\ resource_note' = resource_note_of(table)
    /\ stage' = "resources"
    /\ UNCHANGED <<customer_data, daily_orders, forecast, future_pred, future_df,
                   split, fitted_on, report, dashboard_vars, report_vars>>

InitCustomerResources ==
    PipelineStart(ReportInputs(MaxFcRows)) /\ DashboardIdle /\ ReportsIdle
NextCustomerResources ==
    PrepareEnhancedData \/ ForecastIntermittentDemand \/ ShowCustomerResources
SpecCustomerResources == InitCustomerResources /\ [][NextCustomerResources]_vars

\* the same two calls over order sets on four days: the first two days, a
\* week later and the end of the span.  Two of these order sets are compared
\* with one another, and every row of their forecasts is examined.
PairDays == {0, 1, 7, MaxSpan}
PairInputs(n) ==
    {[i \in 1..Len(ds) |-> OrderRow("T1", "L1", ds[i])] : ds \in SeqsUpTo(PairDays, n)}
InitPairs == PipelineStart(PairInputs(MaxFcRows)) /\ DashboardIdle /\ ReportsIdle
NextPairs == PrepareEnhancedData \/ ForecastIntermittentDemand
SpecPairs == InitPairs /\ [][NextPairs]_vars

(***************************************************************************)
(* The dashboard: one action per entry point.  A request is one run of the  *)
(* script: it recomputes its tables from the cached df, and the tables are *)
(* gone when the next run starts.                                          *)
(***************************************************************************)
peak_forecast_days == 30
low_forecast_days == 7

\* detect_low_demand_days: (None, None) for an unknown facility, else the
\* forecast and its low-demand rows
detect_low_demand_days(table, laundry_id, threshold, model) ==
    LET daily == prepare_laundry_data(table, laundry_id)
    IN  IF empty(daily) THEN [is_none |-> TRUE, forecast |-> <<>>, low_demand |-> {}]
        ELSE LET fc == forecast_demand_laundry_rf(daily, low_forecast_days, model)
             IN  [is_none |-> FALSE, forecast |-> fc,
                  low_demand |-> low_demand_rows(fc, threshold)]

NoCustomerTables ==
    /\ daily_orders' = <<>> /\ forecast' = <<>> /\ future_df' = <<>>
    /\ split' = NoSplit /\ fitted_on' = NoFit /\ report' = NoReport
    /\ future_resource' = <<>> /\ clock' = NoClock /\ resource_note' = ""
NoFacilityTables ==
    /\ daily_usage' = <<>> /\ fc_rows' = <<>> /\ peak_days' = {} /\ low_demand' = {}
    /\ daily_demand' = <<>>

\* customer_section, with the sub-section chosen in the side bar
CustomerSection(tenant_id, subsection) ==
    LET data  == filter_rows(df, "TenantID", tenant_id)
        daily == prepare_enhanced_data(data)
    IN  /\ outcome = "none"
        /\ request' = [entry |-> "customer", id |-> tenant_id,
                       subsection |-> subsection, threshold |-> 0]
        /\ customer_data' = data
        /\ NoFacilityTables
        /\ IF empty(data)
           THEN /\ steps' = <<"filter", "empty_check">>
                /\ outcome' = "no_data"
                /\ stage' = "idle"
                /\ future_pred' = <<>>
                /\ NoCustomerTables
           ELSE IF subsection = "Historical"
           THEN /\ steps' = <<"filter", "empty_check", "insights">>
                /\ outcome' = "ok"
                /\ stage' = "filtered"
                /\ future_pred' = <<>>
                /\ NoCustomerTables
           ELSE IF fit_raises(train_size(Len(daily)))
           THEN /\ steps' = <<"filter", "empty_check", "features", "fit">>
                /\ outcome' = "raised"
                /\ stage' = "raised"
                /\ future_pred' = <<>>
                /\ future_df' = <<>>
                /\ split' = train_test_split(daily)
                /\ fitted_on' = fit_arguments(train_test_split(daily))
                /\ report' = NoReport
                /\ future_resource' = <<>> /\ clock' = NoClock /\ resource_note' = ""
                /\ daily_orders' = daily
                /\ forecast' = <<>>
           ELSE \E model \in Models,
                   now \in (IF subsection = "Resources" THEN NowDays ELSE {NoClock}) :
                /\ steps' = <<"filter", "empty_check", "features", "fit">>
                /\ outcome' = "ok"
                /\ stage' = "forecast"
                /\ clock' = now
                /\ future_resource' =
                       IF subsection = "Resources"
                       THEN calculate_future_resource(
                                forecast_intermittent_demand(daily, data, model),
                                customer_resource_analysis(data).avg_water,
                                customer_resource_analysis(data).avg_electricity, now)
                       ELSE <<>>
                /\ resource_note' =
                       IF subsection = "Resources"
                       THEN resource_note_of(calculate_future_resource(
                                forecast_intermittent_demand(daily, data, model),
                                customer_resource_analysis(data).avg_water,
                                customer_resource_analysis(data).avg_electricity, now))
                       ELSE ""
                /\ future_pred' = customer_future_pred(daily, data, model)
                /\ future_df' = customer_future_df(daily, data)
                /\ split' = train_test_split(daily)
                /\ fitted_on' = fit_arguments(train_test_split(daily))
                /\ daily_orders' = daily
                /\ forecast' = forecast_intermittent_demand(daily, data, model)
                /\ report' = IF subsection = "Report"
                             THEN generate_business_report(
                                      historical_table(daily),
                                      forecast_intermittent_demand(daily, data, model), data)
                             ELSE NoReport
        /\ df' = source_after_filter(df, "TenantID", tenant_id)
        /\ UNCHANGED report_vars

\* show_peak_forecast and show_peak_alerts run the same pipeline
PeakView(entry, laundry_id, peak_threshold) ==
    LET daily == prepare_laundry_data(df, laundry_id)
    IN  /\ outcome = "none"
        /\ request' = [entry |-> entry, id |-> laundry_id,
                       subsection |-> "", threshold |-> peak_threshold]
        /\ customer_data' = <<>>
        /\ stage' = "idle"
        /\ NoCustomerTables
        /\ daily_usage' = <<>>
        /\ low_demand' = {}
        /\ daily_demand' = daily
        /\ IF empty(daily)
           THEN /\ steps' = <<"filter", "aggregate", "empty_check">>
                /\ outcome' = "no_data"
                /\ future_pred' = <<>>
                /\ fc_rows' = <<>>
                /\ peak_days' = {}
           ELSE \E model \in Models :
                LET fc == forecast_demand_laundry_rf(daily, peak_forecast_days, model)
                IN  /\ steps' = <<"filter", "aggregate", "empty_check", "features", "fit">>
                    /\ outcome' = "ok"
                    /\ future_pred' = laundry_future_pred(daily, peak_forecast_days, model)
                    /\ fc_rows' = fc
                    /\ peak_days' = peak_rows(fc, peak_threshold)
        /\ df' = source_after_filter(df, "LaundryID", laundry_id)
        /\ UNCHANGED report_vars

ShowPeakForecast(laundry_id, peak_threshold) ==
    PeakView("peak_forecast", laundry_id, peak_threshold)

ShowPeakAlerts(laundry_id, peak_threshold) ==
    PeakView("peak_alerts", laundry_id, peak_threshold)

\* show_resource_analysis of laundry_analysis.py: the resource table first,
\* then the empty check, then the tabs; the last tab forecasts low demand
ShowResourceAnalysis(laundry_id, low_threshold) ==
    LET usage == aggregate_usage(filter_rows(df, "LaundryID", laundry_id))
    IN  /\ outcome = "none"
        /\ request' = [entry |-> "resources", id |-> laundry_id,
                       subsection |-> "", threshold |-> low_threshold]
        /\ customer_data' = <<>>
        /\ stage' = "idle"
        /\ NoCustomerTables
        /\ peak_days' = {}
        /\ IF regression_raises(usage)
           THEN /\ steps' = <<"filter", "aggregate", "fit">>
                /\ outcome' = "raised"
                /\ future_pred' = <<>>
                /\ daily_usage' = <<>>
                /\ fc_rows' = <<>>
                /\ low_demand' = {}
                /\ daily_demand' = <<>>
           ELSE \E labels \in Labellings(usage), model \in Models :
                LET table == laundry_resource_analysis(df, laundry_id, labels)
                    low   == detect_low_demand_days(df, laundry_id, low_threshold, model)
                    daily == prepare_laundry_data(df, laundry_id)
                IN  /\ daily_usage' = table
                    /\ IF empty(table)
                       THEN /\ steps' = <<"filter", "aggregate", "fit", "empty_check">>
                            /\ outcome' = "no_data"
                            /\ future_pred' = <<>>
                            /\ fc_rows' = <<>>
                            /\ low_demand' = {}
                            /\ daily_demand' = <<>>
                       ELSE /\ steps' = <<"filter", "aggregate", "fit", "empty_check",
                                          "filter", "aggregate", "empty_check", "features", "fit">>
                            /\ outcome' = "ok"
                            /\ future_pred' = IF low.is_none THEN <<>>
                                              ELSE laundry_future_pred(daily, low_forecast_days, model)
                            /\ fc_rows' = low.forecast
                            /\ low_demand' = low.low_demand
                            /\ daily_demand' = daily
        /\ df' = source_after_filter(df, "LaundryID", laundry_id)
        /\ UNCHANGED report_vars

NoRequest == [entry |-> "none", id |-> "", subsection |-> "", threshold |-> 0]

\* the run is over: the next one starts from main() with nothing but the
\* cached source table
Rerun ==
    /\ outcome # "none"
    /\ request' = NoRequest
    /\ outcome' = "none"
    /\ steps' = <<>>
    /\ customer_data' = <<>>
    /\ stage' = "idle"
    /\ future_pred' = <<>>
    /\ NoCustomerTables
    /\ NoFacilityTables
    /\ UNCHANGED <<df, report_vars>>

\* the source table: orders of two customers, each at its own facility
DfDays == {0, 1}
DfRows == {OrderRow("T1", "L1", d) : d \in DfDays} \cup {OrderRow("T2", "L2", d) : d \in DfDays}
TenantIds == {"T1", "T2", "T999"}
LaundryIds == {"L1", "L2", "L999"}
Subsections == {"Historical", "Forecast", "Resources", "Report"}
Thresholds == 1..MaxThreshold

InitDashboard ==
    /\ df \in SeqsUpTo(DfRows, MaxDfRows)
    /\ request = NoRequest
    /\ outcome = "none"
    /\ steps = <<>>
    /\ daily_usage = <<>>
    /\ fc_rows = <<>>
    /\ peak_days = {}
    /\ low_demand = {}
    /\ daily_demand = <<>>
    /\ CustomerIdle
    /\ ReportsIdle
NextDashboard ==
    \/ \E id \in TenantIds, sub \in Subsections : CustomerSection(id, sub)
    \/ \E id \in LaundryIds, t \in Thresholds : ShowPeakForecast(id, t)
    \/ \E id \in LaundryIds, t \in Thresholds : ShowPeakAlerts(id, t)
    \/ \E id \in LaundryIds, t \in Thresholds : ShowResourceAnalysis(id, t)
    \/ Rerun
SpecDashboard == InitDashboard /\ [][NextDashboard]_vars

\* customer_section over a source table whose holiday falls on a day without
\* an order of customer T1: the selection, then the two calls of the
\* forecast view.  T1 orders on 2025-01-01 (a holiday), 2025-01-08 and
\* 2025-01-29; customer T2 may have an order on the holiday 2025-01-20.
CalendarDays == {0, 7, MaxSpan}
CalendarTables ==
    {[i \in 1..Len(ds) |-> OrderRow("T1", "L1", ds[i])] \o other :
        ds \in SeqsUpTo(CalendarDays, MaxFcRows),
        other \in {<<>>, <<OrderRow("T2", "L2", 19)>>}}

FilterCustomer(tenant_id) ==
    /\ stage = "idle"
    /\ ~ empty(filter_rows(df, "TenantID", tenant_id))
    /\ customer_data' = filter_rows(df, "TenantID", tenant_id)
    /\ df' = source_after_filter(df, "TenantID", tenant_id)
    /\ stage' = "filtered"
    /\ UNCHANGED <<daily_orders, forecast, future_pred, future_df, split, fitted_on,
                   report, resource_vars, request, outcome, steps, daily_usage, fc_rows,
                   peak_days, low_demand, daily_demand, report_vars>>

InitCalendar ==
    /\ df \in CalendarTables
    /\ request = NoRequest
    /\ outcome = "none"
    /\ steps = <<>>
    /\ daily_usage = <<>>
    /\ fc_rows = <<>>
    /\ peak_days = {}
    /\ low_demand = {}
    /\ daily_demand = <<>>
    /\ CustomerIdle
    /\ ReportsIdle
NextCalendar ==
    \/ \E tenant_id \in {"T1", "T2"} : FilterCustomer(tenant_id)
    \/ PrepareEnhancedData
    \/ ForecastIntermittentDemand
SpecCalendar == InitCalendar /\ [][NextCalendar]_vars

(***************************************************************************)
(* laundry_resource_analysis alone, over tables with busier days.          *)
(***************************************************************************)
LaundryResourceAnalysis(laundry_id) ==
    LET usage == aggregate_usage(filter_rows(df, "LaundryID", laundry_id))
    IN  /\ outcome = "none"
        /\ request' = [entry |-> "laundry_resource_analysis", id |-> laundry_id,
                       subsection |-> "", threshold |-> 0]
        /\ IF regression_raises(usage)
           THEN /\ steps' = <<"filter", "aggregate", "fit">>
                /\ outcome' = "raised"
                /\ daily_usage' = <<>>
           ELSE \E labels \in Labellings(usage) :
                /\ steps' = <<"filter", "aggregate", "fit">>
                /\ outcome' = "ok"
                /\ daily_usage' = laundry_resource_analysis(df, laundry_id, labels)
        /\ df' = source_after_filter(df, "LaundryID", laundry_id)
        /\ UNCHANGED <<fc_rows, peak_days, low_demand, daily_demand,
                       customer_vars, report_vars>>

ResourceRows == {OrderRow("T1", l, d) : l \in {"L1", "L2"}, d \in DfDays}

InitResource ==
    /\ df \in SeqsUpTo(ResourceRows, MaxResRows)
    /\ request = NoRequest
    /\ outcome = "none"
    /\ steps = <<>>
    /\ daily_usage = <<>>
    /\ fc_rows = <<>>
    /\ peak_days = {}
    /\ low_demand = {}
    /\ daily_demand = <<>>
    /\ CustomerIdle
    /\ ReportsIdle
NextResource == \E id \in LaundryIds : LaundryResourceAnalysis(id)
SpecResource == InitResource /\ [][NextResource]_vars

(***************************************************************************)
(* prepare_laundry_data followed by forecast_demand_laundry_rf, over       *)
(* tables whose order dates leave a day without orders.                    *)
(***************************************************************************)
\* the horizons of the call sites: 7 in detect_low_demand_days, 14 by default,
\* 30 in the two peak views
ForecastDays == {7, 14, 30}

PrepareLaundryData(laundry_id) ==
    /\ request.entry = "none"
    /\ request' = [entry |-> "prepare_laundry_data", id |-> laundry_id,
                   subsection |-> "", threshold |-> 0]
    /\ steps' = <<"filter", "aggregate">>
    /\ outcome' = "ok"
    /\ daily_demand' = prepare_laundry_data(df, laundry_id)
    /\ df' = source_after_filter(df, "LaundryID", laundry_id)
    /\ UNCHANGED <<daily_usage, fc_rows, peak_days, low_demand,
                   customer_vars, report_vars>>

ForecastDemandLaundryRf(forecast_days) ==
    /\ request.entry = "prepare_laundry_data"
    /\ request' = [entry |-> "forecast_demand_laundry_rf", id |-> request.id,
                   subsection |-> "", threshold |-> 0, forecast_days |-> forecast_days]
    /\ IF fit_raises(Len(daily_demand))
       THEN /\ steps' = <<"filter", "aggregate", "features", "fit">>
            /\ outcome' = "raised"
            /\ fc_rows' = <<>>
            /\ future_pred' = <<>>
       ELSE \E model \in Models :
            /\ steps' = <<"filter", "aggregate", "features", "fit">>
            /\ outcome' = "ok"
            /\ fc_rows' = forecast_demand_laundry_rf(daily_demand, forecast_days, model)
            /\ future_pred' = laundry_future_pred(daily_demand, forecast_days, model)
    /\ UNCHANGED <<df, daily_usage, peak_days, low_demand, daily_demand,
                   customer_data, daily_orders, forecast, stage, future_df,
                   split, fitted_on, report, resource_vars, report_vars>>

FacilityDays == {0, 1, 3}
FacilityRows == {OrderRow("T1", l, d) : l \in {"L1", "L2"}, d \in FacilityDays}

InitFacility ==
    /\ df \in SeqsUpTo(FacilityRows, MaxFacRows)
    /\ request = NoRequest
    /\ outcome = "none"
    /\ steps = <<>>
    /\ daily_usage = <<>>
    /\ fc_rows = <<>>
    /\ peak_days = {}
    /\ low_demand = {}
    /\ daily_demand = <<>>
    /\ CustomerIdle
    /\ ReportsIdle
NextFacility ==
    \/ \E id \in LaundryIds : PrepareLaundryData(id)
    \/ \E n \in ForecastDays : ForecastDemandLaundryRf(n)
SpecFacility == InitFacility /\ [][NextFacility]_vars

(***************************************************************************)
(* The report files: any sequence of saves and loads.                      *)
(***************************************************************************)
InitReports ==
    /\ dir_exists \in BOOLEAN
    /\ files = [f \in FileNames |-> Missing]
    /\ last_saved = [f \in FileNames |-> Missing]
    /\ loaded = NothingLoaded
    /\ CustomerIdle
    /\ DashboardIdle
NextReports ==
    \/ \E content \in Texts, filename \in FileNames : SaveReport(content, filename)
    \/ \E filename \in FileNames : LoadReport(filename)
SpecReports == InitReports /\ [][NextReports]_vars

(***************************************************************************)
(* Properties of the feature builder.                                      *)
(***************************************************************************)
FirstOrderDate == SetMin(StartDates(customer_data))
LastOrderDate == SetMax(StartDates(customer_data))
OrdersOn(d) == Cardinality({i \in 1..Len(customer_data) : customer_data[i].StartDate = d})

\* C1: the feature table has exactly one row per calendar day from the first to
\* the last order date: the dates rise by one day from row to row, a day
\* without orders is present with order count 0, and dropna removes no row.
C1_DenseDailySeries ==
    stage = "prepared" =>
        /\ Len(daily_orders) = LastOrderDate - FirstOrderDate + 1
        /\ \A i \in 1..Len(daily_orders) :
            /\ daily_orders[i].ds = FirstOrderDate + (i - 1)
            /\ daily_orders[i].ds \notin StartDates(customer_data) => daily_orders[i].orders = 0
        /\ \A i \in 1..(Len(daily_orders) - 1) :
            daily_orders[i + 1].ds = daily_orders[i].ds + 1
        /\ Len(daily_orders) = Len(feature_rows(customer_data))

\* an unsorted input with a repeated date and a gap of days without orders
C1_Witness ==
    /\ stage = "prepared"
    /\ Len(customer_data) = 3
    /\ customer_data[1].StartDate > customer_data[2].StartDate + 1
    /\ customer_data[3].StartDate = customer_data[1].StartDate
    /\ \E i \in 1..Len(daily_orders) : daily_orders[i].orders = 0
    /\ \E i \in 1..Len(daily_orders) : daily_orders[i].orders = 2

Lags == {1, 7, 14, 28}
LagOf(row, k) ==
    CASE k = 1 -> row.lag_1 [] k = 7 -> row.lag_7 [] k = 14 -> row.lag_14 [] k = 28 -> row.lag_28

\* C2: at row index i (days from the series start) the lag-k feature is
\* non-negative, 0 when i < k, and otherwise the order count of the day k days
\* earlier, for k in {1, 7, 14, 28}.
C2_LagFeatures ==
    stage = "prepared" =>
        \A n \in 1..Len(daily_orders) : \A k \in Lags :
            LET i == daily_orders[n].time_idx
            IN  /\ i = n - 1
                /\ LagOf(daily_orders[n], k) >= 0
                /\ i < k => LagOf(daily_orders[n], k) = 0
                /\ i >= k => LagOf(daily_orders[n], k) = OrdersOn(daily_orders[n].ds - k)

\* a series long enough for every offset, with a non-zero lag-28 value
C2_Witness ==
    /\ stage = "prepared"
    /\ Len(daily_orders) > 28
    /\ \E n \in 1..Len(daily_orders) :
        /\ daily_orders[n].lag_28 > 0
        /\ daily_orders[n].lag_1 = 0
    /\ \E n \in 1..Len(daily_orders) : daily_orders[n].lag_7 > 0

(***************************************************************************)
(* Properties of the forecasters.                                          *)
(***************************************************************************)
FutureRows == {i \in 1..Len(forecast) : i > Len(daily_orders)}

\* C3: every future row of the customer forecast has point prediction and
\* bounds >= 0 and lower <= point <= upper, whatever the model predicted; every
\* row of the facility forecast has lower <= point <= upper.
C3_ForecastBounds ==
    /\ \A i \in FutureRows :
        /\ forecast[i].yhat >= 0
        /\ forecast[i].yhat_lower >= 0
        /\ forecast[i].yhat_upper >= 0
        /\ forecast[i].yhat_lower <= forecast[i].yhat
        /\ forecast[i].yhat <= forecast[i].yhat_upper
    /\ \A i \in 1..Len(fc_rows) :
        /\ fc_rows[i].yhat_lower <= fc_rows[i].yhat
        /\ fc_rows[i].yhat <= fc_rows[i].yhat_upper

\* a customer forecast for which the model predicted below zero on some days
\* and above zero on others
C3_Witness ==
    /\ stage = "forecast"
    /\ Cardinality(FutureRows) = future_days
    /\ \E i \in 1..Len(future_pred) : future_pred[i] < 0
    /\ \E i \in FutureRows : forecast[i].yhat_lower > 0

\* C4: for every non-empty order set, however short its daily series, the
\* feature builder followed by the forecaster completes without raising and
\* yields a 90-day forecast; the training subset is never empty.
C4_ForecastCompletes ==
    /\ stage # "raised"
    /\ stage \in {"prepared", "forecast"} => train_size(Len(daily_orders)) >= 1
    /\ stage = "forecast" => Cardinality(FutureRows) = 90

(***************************************************************************)
(* Properties of the dashboard entry points.                               *)
(***************************************************************************)
IdColumn == IF request.entry = "customer" THEN "TenantID" ELSE "LaundryID"
UnknownId == \A i \in 1..Len(df) : df[i][IdColumn] # request.id

\* C5: at every entry point an identifier that matches no row of the source
\* table ends in the no-data outcome, found by the empty check before any
\* feature computation or model fitting, and nothing is raised.
C5_UnknownIdNoData ==
    (request.entry # "none" /\ UnknownId) =>
        /\ outcome = "no_data"
        /\ \A i \in 1..Len(steps) : steps[i] \notin {"features", "fit"}

PeakEntries == {"peak_forecast", "peak_alerts"}

\* C8 as stated: a row is a peak row exactly when its prediction is at or
\* above the threshold and a low-demand row exactly when it is below, so every
\* forecast row is in exactly one of the two sets.
C8_PeakAtOrAbove ==
    \A i \in 1..Len(fc_rows) :
        /\ request.entry \in PeakEntries =>
            (i \in peak_days <=> fc_rows[i].yhat >= 10 * request.threshold)
        /\ request.entry = "resources" =>
            (i \in low_demand <=> fc_rows[i].yhat < 10 * request.threshold)
        /\ (i \in peak_rows(fc_rows, request.threshold))
            # (i \in low_demand_rows(fc_rows, request.threshold))

\* C8 amended: a row is a peak row exactly when its prediction is strictly
\* above the threshold and a low-demand row exactly when it is strictly below;
\* no row is in both sets, and a row equal to the threshold is in neither.
C8_StrictThreshold ==
    \A i \in 1..Len(fc_rows) :
        /\ request.entry \in PeakEntries =>
            (i \in peak_days <=> fc_rows[i].yhat > 10 * request.threshold)
        /\ request.entry = "resources" =>
            (i \in low_demand <=> fc_rows[i].yhat < 10 * request.threshold)
        /\ ~ (/\ i \in peak_rows(fc_rows, request.threshold)
              /\ i \in low_demand_rows(fc_rows, request.threshold))
        /\ (/\ i \notin peak_rows(fc_rows, request.threshold)
            /\ i \notin low_demand_rows(fc_rows, request.threshold))
            <=> fc_rows[i].yhat = 10 * request.threshold

\* a peak view whose forecast has a day above and a day equal to the threshold
C8_Witness ==
    /\ request.entry \in PeakEntries
    /\ outcome = "ok"
    /\ peak_days # {}
    /\ \E i \in 1..Len(fc_rows) :
        /\ fc_rows[i].yhat = 10 * request.threshold
        /\ i \notin peak_days

(***************************************************************************)
(* Properties of the resource table.                                       *)
(***************************************************************************)
\* C6: a row carries the high-usage alert exactly when its anomaly label is
\* "Anomaly" and its order count is below 5; every other row carries the
\* normal alert.
C6_AlertRule ==
    \A i \in 1..Len(daily_usage) :
        LET row == daily_usage[i]
        IN  /\ row.Alert = AlertText <=> (row.AnomalyLabel = "Anomaly" /\ row.OrderCount < 5)
            /\ row.Alert # AlertText => row.Alert = NormalText

\* a table with an anomalous quiet day (alert) and an anomalous busy day (none)
C6_Witness ==
    /\ \E i \in 1..Len(daily_usage) :
        /\ daily_usage[i].AnomalyLabel = "Anomaly"
        /\ daily_usage[i].OrderCount >= 5
        /\ daily_usage[i].Alert = NormalText
    /\ \E i \in 1..Len(daily_usage) :
        /\ daily_usage[i].AnomalyLabel = "Anomaly"
        /\ daily_usage[i].OrderCount < 5
        /\ daily_usage[i].Alert = AlertText

FacilityDates == {df[i].StartDate : i \in {j \in 1..Len(df) : df[j].LaundryID = request.id}}

\* C7: for a facility with at least one order the resource table has exactly
\* one row per distinct order date of the facility, each with one anomaly
\* label from {"Normal", "Anomaly"} and one alert value.
C7_OneRowPerDate ==
    (request.entry = "laundry_resource_analysis" /\ FacilityDates # {}) =>
        /\ outcome = "ok"
        /\ {daily_usage[i].StartDate : i \in 1..Len(daily_usage)} = FacilityDates
        /\ Len(daily_usage) = Cardinality(FacilityDates)
        /\ \A i \in 1..Len(daily_usage) :
            /\ daily_usage[i].AnomalyLabel \in {"Normal", "Anomaly"}
            /\ daily_usage[i].Alert \in {AlertText, NormalText}

\* a facility with several orders on one date and one on another, in a table
\* that also holds orders of the other facility
C7_Witness ==
    /\ request.entry = "laundry_resource_analysis"
    /\ Len(daily_usage) = 2
    /\ \E i \in 1..Len(daily_usage) : daily_usage[i].OrderCount >= 2
    /\ \E i \in 1..Len(df) : df[i].LaundryID # request.id

(***************************************************************************)
(* Properties of the report files.                                         *)
(***************************************************************************)
\* C9: load_report after save_report returns exactly the saved text; after
\* several saves to one name it returns the text of the last save.
C9_RoundTrip ==
    [][\A filename \in FileNames :
        (LoadReport(filename) /\ last_saved[filename] # Missing)
            => loaded'.result = last_saved[filename]]_vars

\* C10: load_report for a name that was never saved, or in a directory that
\* does not exist, returns None and leaves the stored reports unchanged.
C10_LoadMissing ==
    [][\A filename \in FileNames :
        (LoadReport(filename) /\ (last_saved[filename] = Missing \/ ~dir_exists))
            => /\ loaded'.result = None
               /\ files' = files
               /\ dir_exists' = dir_exists]_vars

\* a load of a name never saved, from a directory that holds another report
C10_Witness ==
    /\ loaded.name \in FileNames
    /\ loaded.result = None
    /\ last_saved[loaded.name] = Missing
    /\ dir_exists
    /\ \E f \in FileNames : files[f] # Missing

(***************************************************************************)
(* Properties of the feature builder over two order sets.                  *)
(***************************************************************************)
\* the two order sets start on the same day and hold the same orders on every
\* date up to and including d
SameUpTo(a, b, d) ==
    /\ SetMin(StartDates(a)) = SetMin(StartDates(b))
    /\ \A e \in StartDates(a) \cup StartDates(b) :
        e <= d => filter_rows(a, "StartDate", e) = filter_rows(b, "StartDate", e)

\* the feature columns of the rows of a feature table that carry date d
FeaturesOn(table, d) ==
    {drop_orders_ds(table[i]) : i \in {j \in 1..Len(table) : table[j].ds = d}}

\* the last date up to which two order sets hold the same orders: the day
\* before the first date on which they differ, or the last date of either
AgreeLimit(a, b) ==
    LET dates  == StartDates(a) \cup StartDates(b)
        differ == {e \in dates : filter_rows(a, "StartDate", e) # filter_rows(b, "StartDate", e)}
    IN  IF differ = {} THEN SetMax(dates) ELSE SetMin(differ) - 1

\* C11: for every other order set that starts on the same day and holds the
\* same orders up to and including a date d, the row of date d has the same
\* value in every feature column in both feature tables, whatever the two
\* sets hold after d.
C11_NoLookAhead ==
    stage = "prepared" =>
        \A other \in PairInputs(MaxFcRows) :
            SetMin(StartDates(other)) = FirstOrderDate =>
                LET limit == AgreeLimit(customer_data, other)
                    last  == SetMax(StartDates(other))
                    other_orders == prepare_enhanced_data(other)
                IN  \A i \in 1..Len(daily_orders) :
                        (daily_orders[i].ds <= limit /\ daily_orders[i].ds <= last)
                            => FeaturesOn(other_orders, daily_orders[i].ds)
                                = {drop_orders_ds(daily_orders[i])}

\* an order set with a second order at the end of the span, and another set
\* that agrees with it on the first week and then has its second order
C11_Witness ==
    /\ stage = "prepared"
    /\ Len(daily_orders) > 28
    /\ \E other \in PairInputs(MaxFcRows) :
        /\ SameUpTo(customer_data, other, FirstOrderDate + 6)
        /\ ~ SameUpTo(customer_data, other, FirstOrderDate + 7)
        /\ SetMax(StartDates(other)) < LastOrderDate
        /\ FeaturesOn(prepare_enhanced_data(other), FirstOrderDate + 6)
            = {drop_orders_ds(daily_orders[7])}

(***************************************************************************)
(* Properties of the facility daily series.                                *)
(***************************************************************************)
\* C12: the daily series of a facility has one row per calendar day from the
\* facility's first to its last order date inclusive, and a day without orders
\* is present with count 0.
C12_FacilitySeriesDense ==
    (request.entry = "prepare_laundry_data" /\ FacilityDates # {}) =>
        /\ Len(daily_demand) = SetMax(FacilityDates) - SetMin(FacilityDates) + 1
        /\ \A i \in 1..Len(daily_demand) :
            /\ daily_demand[i].ds = SetMin(FacilityDates) + (i - 1)
            /\ daily_demand[i].ds \notin FacilityDates => daily_demand[i].y = 0

(***************************************************************************)
(* Properties of the inputs the customer forecaster gives its model.       *)
(***************************************************************************)
\* the order count of the k-th most recent day of the history
RecentOrders(k) == OrdersOn(LastOrderDate - (k - 1))

\* C13: each of the 90 future rows is given the same lag and rolling-average
\* inputs: lag-k is the order count of the k-th most recent historical day, or
\* 0 when the history has fewer than k days, and the averages are those of the
\* last historical row; they do not depend on what the model predicted.
C13_SharedLagInputs ==
    stage = "forecast" =>
        /\ Len(future_df) = 90
        /\ \A i \in 1..Len(future_df) :
            /\ \A k \in Lags :
                LagOf(future_df[i], k) =
                    IF Len(daily_orders) >= k THEN RecentOrders(k) ELSE 0
            /\ future_df[i].orders_7d_avg = daily_orders[Len(daily_orders)].orders_7d_avg
            /\ future_df[i].orders_28d_avg = daily_orders[Len(daily_orders)].orders_28d_avg
        /\ \A i \in 1..Len(future_df) :
            \A c \in {"orders_7d_avg", "orders_28d_avg", "lag_1", "lag_7", "lag_14", "lag_28"} :
                future_df[i][c] = future_df[1][c]

\* a history of 28 days or more with an order 28 days before its end, a model
\* that predicts other than the last count, and future rows in two months
C13_Witness ==
    /\ stage = "forecast"
    /\ Len(daily_orders) >= 28
    /\ future_df[90].lag_28 > 0
    /\ future_df[90].lag_7 = 0
    /\ future_pred[1] # future_df[2].lag_1
    /\ future_df[1].month # future_df[90].month
    /\ future_df[1].time_idx # future_df[90].time_idx

(***************************************************************************)
(* Properties of the training split of the customer forecaster.            *)
(***************************************************************************)
\* C14: with n rows in the feature table, the model is fitted on exactly the
\* first floor(0.8 * n) rows in chronological order; the other, most recent
\* rows are held out; the two parts are disjoint and cover the table; no
\* held-out row is among the rows handed to the fit.
C14_TrainTestSplit ==
    stage \in {"forecast", "raised"} =>
        LET n == Len(daily_orders)
            k == (8 * n) \div 10
        IN  /\ \A i \in 1..(n - 1) : daily_orders[i].ds < daily_orders[i + 1].ds
            /\ Len(split.X_train) = k /\ Len(split.y_train) = k
            /\ Len(split.X_test) = n - k /\ Len(split.y_test) = n - k
            /\ \A i \in 1..k :
                /\ split.X_train[i] = drop_orders_ds(daily_orders[i])
                /\ split.y_train[i] = daily_orders[i].orders
            /\ \A i \in 1..(n - k) :
                /\ split.X_test[i] = drop_orders_ds(daily_orders[k + i])
                /\ split.y_test[i] = daily_orders[k + i].orders
            /\ fitted_on.X = split.X_train
            /\ fitted_on.y = split.y_train
            /\ Len(fitted_on.X) = k
            /\ \A i \in 1..Len(fitted_on.X) : \A j \in 1..(n - k) :
                fitted_on.X[i].time_idx # split.X_test[j].time_idx

\* a forecast from a table of 29 rows whose last order lies in the held-out
\* part: 23 rows are fitted on, 6 are held out
C14_Witness ==
    /\ stage = "forecast"
    /\ Len(daily_orders) = 29
    /\ Len(fitted_on.X) = 23
    /\ Len(split.X_test) = 6
    /\ split.y_test[6] > 0
    /\ \A i \in 2..Len(fitted_on.y) : fitted_on.y[i] = 0

(***************************************************************************)
(* Properties of the forecast horizon.                                     *)
(***************************************************************************)
\* the horizon the facility entry point that ran last asks for
RequestedDays == IF request.entry = "resources" THEN low_forecast_days ELSE peak_forecast_days

\* C15: the customer forecast has exactly 90 future rows and the facility
\* forecast exactly forecast_days rows; in both, the future dates are the
\* consecutive calendar days that start the day after the last historical
\* date, so they rise strictly and none is a historical date.
C15_HorizonRows ==
    /\ (request.entry = "customer" /\ stage = "forecast") =>
        LET h    == Len(daily_orders)
            last == SetMax({daily_orders[i].ds : i \in 1..h})
        IN  /\ Len(forecast) = h + 90
            /\ \A i \in 1..90 :
                /\ forecast[h + i].ds = last + i
                /\ \A j \in 1..h : forecast[h + i].ds # daily_orders[j].ds
            /\ \A i \in 1..89 : forecast[h + i].ds < forecast[h + i + 1].ds
    /\ (request.entry \in PeakEntries \cup {"resources"} /\ outcome = "ok") =>
        LET last == SetMax({daily_demand[i].ds : i \in 1..Len(daily_demand)})
        IN  /\ Len(fc_rows) = RequestedDays
            /\ \A i \in 1..Len(fc_rows) :
                /\ fc_rows[i].ds = last + i
                /\ \A j \in 1..Len(daily_demand) : fc_rows[i].ds # daily_demand[j].ds
            /\ \A i \in 1..(Len(fc_rows) - 1) : fc_rows[i].ds < fc_rows[i + 1].ds

\* a customer forecast after a history of two days: the 90 future rows run
\* from the third day on
C15_Witness ==
    /\ request.entry = "customer"
    /\ stage = "forecast"
    /\ Len(daily_orders) = 2
    /\ Len(forecast) = 92
    /\ forecast[3].ds = daily_orders[2].ds + 1
    /\ forecast[92].ds = daily_orders[2].ds + 90

(***************************************************************************)
(* Properties of the source table.                                         *)
(***************************************************************************)
\* C16: no request changes the source table: whatever entry point runs, for a
\* known or an unknown identifier, ending well or raising, the table holds
\* the rows and values it held before.
C16_SourceTableUnchanged == [][df' = df]_vars

\* a customer request that raised, on a table that also holds the orders of
\* the other customer
C16_Witness ==
    /\ request.entry = "customer"
    /\ outcome = "raised"
    /\ Len(df) = 2
    /\ \E i \in 1..Len(df) : df[i].TenantID # request.id
    /\ Len(customer_data) = 1

(***************************************************************************)
(* Properties of the business report.                                      *)
(***************************************************************************)
\* the sum of a forecast column over the future rows, in tenths, and the
\* number of future rows
RECURSIVE FutureSumFrom(_, _)
FutureSumFrom(i, c) ==
    IF i > Len(forecast) THEN 0 ELSE forecast[i][c] + FutureSumFrom(i + 1, c)
FutureSum(c) == FutureSumFrom(Len(daily_orders) + 1, c)
FutureCount == Len(forecast) - Len(daily_orders)

\* the integer nearest to num / den, the even one of the two when num / den
\* lies half way between them
Nearest(num, den) ==
    CHOOSE k \in 0..(num \div den + 1) :
        LET dist == IF k * den >= num THEN k * den - num ELSE num - k * den
        IN  /\ 2 * dist <= den
            /\ 2 * dist = den => k % 2 = 0

\* the figures of the report other than the minimum stock: the weekly range
\* is round(0.8 * 7 * average daily) to round(1.2 * 7 * average daily) and the
\* buffer stock is round(2 * average upper bound)
WeeklyAndBuffer ==
    /\ report.weekly_low = Nearest(56 * FutureSum("yhat"), 100 * FutureCount)
    /\ report.weekly_high = Nearest(84 * FutureSum("yhat"), 100 * FutureCount)
    /\ report.buffer_stock = Nearest(2 * FutureSum("yhat_upper"), 10 * FutureCount)

\* C17 as stated: the minimum stock is the rounded average lower bound, also
\* when that rounds to 0, and the weekly range and the buffer stock are as above.
C17_MinStockRounded ==
    stage = "report" =>
        /\ report.min_stock = Nearest(FutureSum("yhat_lower"), 10 * FutureCount)
        /\ WeeklyAndBuffer

\* C17 amended: the minimum stock is the rounded average lower bound but never
\* below 1: it is 1 when the average lower bound rounds to 0; the weekly range
\* and the buffer stock are as above.
C17_MinStockAtLeastOne ==
    stage = "report" =>
        LET rounded == Nearest(FutureSum("yhat_lower"), 10 * FutureCount)
        IN  /\ report.min_stock = IF rounded >= 1 THEN rounded ELSE 1
            /\ rounded = 0 => report.min_stock = 1
            /\ WeeklyAndBuffer

\* a report on a forecast whose average lower bound rounds to 0 while its
\* average upper bound does not
C17_Witness ==
    /\ stage = "report"
    /\ FutureSum("yhat_lower") > 0
    /\ Nearest(FutureSum("yhat_lower"), 10 * FutureCount) = 0
    /\ report.min_stock = 1
    /\ report.buffer_stock >= 1

\* the orders of the customer placed on a weekend day
WeekendOrders == Cardinality({i \in 1..Len(customer_data) : customer_data[i].IsWeekend = 1})

Windows == {7, 28}
MeanOf(row, w) == CASE w = 7 -> row.orders_7d_avg [] w = 28 -> row.orders_28d_avg

\* the orders placed on the k days that end on day d
RECURSIVE OrdersInDays(_, _)
OrdersInDays(d, k) == IF k = 0 THEN 0 ELSE OrdersOn(d) + OrdersInDays(d - 1, k - 1)

\* C19 as stated: for every row of the feature table the 7-day and the 28-day
\* rolling mean are non-negative, and are zero whenever the row is fewer days
\* from the series start than the window needs.
C19_RollingZeroWhenShort ==
    stage = "prepared" =>
        \A n \in 1..Len(daily_orders) : \A w \in Windows :
            LET mean == MeanOf(daily_orders[n], w)
            IN  /\ mean.den > 0 /\ mean.num >= 0
                /\ daily_orders[n].time_idx < w - 1 => mean.num = 0

\* C19 amended: the rolling means are non-negative, and on a row fewer days
\* from the series start than the window needs the mean is taken over the
\* days from the series start to the row (otherwise over the whole window).
C19_RollingOverAvailableDays ==
    stage = "prepared" =>
        \A n \in 1..Len(daily_orders) : \A w \in Windows :
            LET mean == MeanOf(daily_orders[n], w)
                days == IF daily_orders[n].time_idx < w - 1
                        THEN daily_orders[n].time_idx + 1 ELSE w
            IN  /\ mean.num >= 0
                /\ mean.den = days
                /\ mean.num = OrdersInDays(daily_orders[n].ds, days)

\* a series longer than both windows whose first row, with no history at
\* all, has a positive 7-day and 28-day mean
C19_Witness ==
    /\ stage = "prepared"
    /\ Len(daily_orders) > 28
    /\ daily_orders[1].time_idx = 0
    /\ daily_orders[1].orders_7d_avg.num > 0
    /\ daily_orders[1].orders_28d_avg.num > 0
    /\ daily_orders[Len(daily_orders)].orders_28d_avg.den = 28

\* the dates the source table as a whole marks as holidays
TableHolidays == {df[i].StartDate : i \in {j \in 1..Len(df) : df[j].IsHoliday = 1}}

\* C20: the is-holiday flag of a feature row is set exactly when its date is
\* a holiday in the source table as a whole, also on days without an order of
\* the selected customer, and the same calendar decides the flag of every
\* future forecast date.
C20_HolidayFromCalendar ==
    /\ stage \in {"prepared", "forecast", "raised"} =>
            \A n \in 1..Len(daily_orders) :
                daily_orders[n].is_holiday = 1 <=> daily_orders[n].ds \in TableHolidays
    /\ stage = "forecast" =>
            \A i \in 1..Len(future_df) :
                future_df[i].is_holiday = 1
                    <=> (daily_orders[1].ds + future_df[i].time_idx) \in TableHolidays

FeatureColumns ==
    {"ds", "orders", "day_of_week", "is_weekend", "month", "day_of_month", "time_idx",
     "lag_1", "lag_7", "lag_14", "lag_28", "is_holiday"}

\* C21: at row index i and window w in {7, 28} the rolling mean is the
\* arithmetic mean of the order counts of the days max(0, i - w + 1) .. i, the
\* current day included; it is defined from the first row on, so the table has
\* a row for every day and no feature column holds a missing value.
C21_RollingMeanWindow ==
    stage = "prepared" =>
        /\ Len(daily_orders) = LastOrderDate - FirstOrderDate + 1
        /\ \A n \in 1..Len(daily_orders) :
            LET i == n - 1
            IN  /\ daily_orders[n].ds = FirstOrderDate + i
                /\ \A c \in FeatureColumns : daily_orders[n][c] # NaN
                /\ \A w \in Windows :
                    LET first == IF i - w + 1 > 0 THEN i - w + 1 ELSE 0
                        mean  == MeanOf(daily_orders[n], w)
                    IN  /\ mean.den = i - first + 1
                        /\ mean.num = OrdersInDays(FirstOrderDate + i, i - first + 1)

\* a series whose first row has windows of one day, and a later row whose
\* 7-day window has moved past the first order while the 28-day window, not
\* yet full, still holds it
C21_Witness ==
    /\ stage = "prepared"
    /\ \E n \in 8..Len(daily_orders) :
        /\ daily_orders[n].orders_7d_avg.num = 0
        /\ daily_orders[n].orders_7d_avg.den = 7
        /\ daily_orders[n].orders_28d_avg.num > 0
        /\ daily_orders[n].orders_28d_avg.den = n
    /\ daily_orders[1].orders_7d_avg.den = 1
    /\ daily_orders[1].orders_28d_avg.den = 1

\* the order counts of the rows 1..n of the daily series, added up
RECURSIVE SeriesTotal(_)
SeriesTotal(n) == IF n = 0 THEN 0 ELSE daily_orders[n].orders + SeriesTotal(n - 1)

\* C22: the feature builder conserves the order counts: the count of each
\* day of the daily series is the number of input order rows with that date,
\* and the counts of the series add up to the number of input order rows.
C22_OrderCountsConserved ==
    stage = "prepared" =>
        /\ \A n \in 1..Len(daily_orders) :
                daily_orders[n].orders
                    = Cardinality({k \in 1..Len(customer_data) :
                                      customer_data[k].StartDate = daily_orders[n].ds})
        /\ SeriesTotal(Len(daily_orders)) = Len(customer_data)

\* three orders, two of them on one day, and days without orders between
C22_Witness ==
    /\ stage = "prepared"
    /\ Len(customer_data) = 3
    /\ Len(daily_orders) > 3
    /\ \E n \in 1..Len(daily_orders) : daily_orders[n].orders = 2
    /\ \E n \in 1..Len(daily_orders) : daily_orders[n].orders = 1
    /\ \E n \in 1..Len(daily_orders) : daily_orders[n].orders = 0

\* C23: a report built from a forecast of the customer forecaster never
\* classifies volatility as "Low": when the average lower bound is positive
\* the upper / lower ratio is 13/7, which is not below 1.5, and when it is
\* zero the average upper bound is zero too and the ratio is undefined, so
\* the label is "Medium" in every case.
C23_VolatilityNeverLow ==
    stage = "report" =>
        /\ report.volatility = "Medium"
        /\ 7 * report.avg_upper.num = 13 * report.avg_lower.num
        /\ report.avg_upper.den = report.avg_lower.den
        /\ report.avg_lower.num = FutureSum("yhat_lower")
        /\ report.avg_upper.num = FutureSum("yhat_upper")
        /\ report.avg_lower.num > 0 => 2 * report.avg_upper.num >= 3 * report.avg_lower.num
        /\ report.avg_lower.num = 0 => report.avg_upper.num = 0

\* a report with a positive average lower bound
C23_Witness ==
    /\ stage = "report"
    /\ report.avg_lower.num > 0
    /\ report.avg_upper.num > report.avg_lower.num
    /\ report.volatility = "Medium"

\* a report whose forecast is zero on every day: the ratio is 0 / 0
C23_WitnessUndefined ==
    /\ stage = "report"
    /\ report.avg_lower.num = 0
    /\ report.avg_upper.num = 0
    /\ report.volatility = "Medium"

(***************************************************************************)
(* Properties of the customer resource view.                               *)
(***************************************************************************)
RECURSIVE ColumnTotal(_, _)
ColumnTotal(n, column) ==
    IF n = 0 THEN 0 ELSE customer_data[n][column] + ColumnTotal(n - 1, column)

\* the rows of the forecast table dated after the time of the call
RowsAfterClock == {i \in 1..Len(forecast) : forecast[i].ds > clock}

\* yhat times the customer's average use per order, yhat being in tenths
NeededIs(value, yhat, column) ==
    IF yhat = NaN THEN value.den = 0
    ELSE /\ value.den = 10 * Len(customer_data)
         /\ value.num = yhat * ColumnTotal(Len(customer_data), column)

\* C24: calculate_future_resource returns exactly the rows of the forecast
\* table dated strictly after the current wall-clock time, not after the last
\* historical date, each with Water_Needed = yhat * avg_water and
\* Electricity_Needed = yhat * avg_electricity; when the whole 90-day horizon
\* lies before the current time the table is empty and the view reports no
\* future needs although the 90-day forecast exists.
C24_FutureResourceAfterNow ==
    stage = "resources" =>
        LET skipped == Len(forecast) - Len(future_resource)
        IN  /\ Len(future_resource) = Cardinality(RowsAfterClock)
            /\ RowsAfterClock = {i \in 1..Len(forecast) : i > skipped}
            /\ \A k \in 1..Len(future_resource) :
                /\ future_resource[k].ds = forecast[skipped + k].ds
                /\ future_resource[k].yhat = forecast[skipped + k].yhat
                /\ NeededIs(future_resource[k].Water_Needed,
                            forecast[skipped + k].yhat, "Water_Litres")
                /\ NeededIs(future_resource[k].Electricity_Needed,
                            forecast[skipped + k].yhat, "Electricity_kWh")
            /\ resource_note = "no_future_needs" <=> RowsAfterClock = {}
            /\ resource_note \in {"no_future_needs", "future_needs"}
            /\ forecast[Len(forecast)].ds <= clock =>
                /\ future_resource = <<>>
                /\ resource_note = "no_future_needs"
                /\ Len(forecast) = Len(daily_orders) + 90

\* the whole horizon lies before the time of the call, which falls on the
\* last forecast day: the forecast has its 90 rows with orders predicted and
\* the view reports no future needs
C24_Witness ==
    /\ stage = "resources"
    /\ clock = forecast[Len(forecast)].ds
    /\ Len(forecast) = Len(daily_orders) + 90
    /\ forecast[Len(forecast)].yhat > 0
    /\ future_resource = <<>>
    /\ resource_note = "no_future_needs"

\* the call falls inside the history: rows of the history come back too,
\* with nothing in their two columns
C24_WitnessInsideHistory ==
    /\ stage = "resources"
    /\ clock < daily_orders[Len(daily_orders)].ds
    /\ Len(future_resource) > 90
    /\ future_resource[1].Water_Needed.den = 0
    /\ future_resource[Len(future_resource)].Water_Needed.num > 0

\* the call falls inside the horizon: only the rows after it come back
C24_WitnessInsideHorizon ==
    /\ stage = "resources"
    /\ Len(future_resource) \in 1..89
    /\ future_resource[1].Electricity_Needed.num > 0

=============================================================================
